---- MODULE Spec2Model ----
(***************************************************************************)
(* AirbnbFilter: the chained handler (AirBnBDataHandler, src/unnamed/      *)
(* part_003), the stateful handler (src/unnamed/part_002) and the two      *)
(* run() pipelines that drive them (src/unnamed/part_001 and               *)
(* src/src/AirBnBDataProcessor.js).                                        *)
(*                                                                         *)
(* JavaScript values are modelled by what the language does with them:     *)
(* a number is an exact rational, NaN or +-Infinity; a string is a tuple   *)
(* of one-character strings; toString, parseFloat, parseInt and property   *)
(* key coercion are computed character by character.  Binary floating      *)
(* point rounding is not modelled: sums and quotients are exact.           *)
(***************************************************************************)
EXTENDS Integers, Sequences, FiniteSets, TLC

(***************************************************************************)
(* Bounds of the model.                                                    *)
(***************************************************************************)
\* longest dataset drawn in Init
MaxLen == 3
\* largest explicit limit handed to rankHosts
MaxLimit == 3

(***************************************************************************)
(* JavaScript numbers: [k, n, d] with k = "fin" (the rational n/d, d > 0,  *)
(* in lowest terms), "nan", or "inf" (n = 1 for +Infinity, -1 for          *)
(* -Infinity).                                                             *)
(***************************************************************************)
RECURSIVE GCD(_, _)
GCD(a, b) == IF b = 0 THEN a ELSE GCD(b, a % b)

Abs(x) == IF x < 0 THEN -x ELSE x

Min(a, b) == IF a <= b THEN a ELSE b

Max(a, b) == IF a >= b THEN a ELSE b

Fin(n, d) ==
  LET g == GCD(Abs(n), d)
  IN  [k |-> "fin", n |-> n \div g, d |-> d \div g]

Whole(n) == [k |-> "fin", n |-> n, d |-> 1]

NaN == [k |-> "nan", n |-> 0, d |-> 1]

Infinity == [k |-> "inf", n |-> 1, d |-> 1]

NegInfinity == [k |-> "inf", n |-> -1, d |-> 1]

Zero == Whole(0)

\* the sign of a non-NaN number: -1, 0 or 1
Sign(x) == IF x.n > 0 THEN 1 ELSE IF x.n < 0 THEN -1 ELSE 0

\* x + y
NumAdd(x, y) ==
  IF x.k = "nan" \/ y.k = "nan" THEN NaN
  ELSE IF x.k = "inf" /\ y.k = "inf" THEN (IF x.n = y.n THEN x ELSE NaN)
  ELSE IF x.k = "inf" THEN x
  ELSE IF y.k = "inf" THEN y
  ELSE Fin(x.n * y.d + y.n * x.d, x.d * y.d)

\* -x
NumNeg(x) == IF x.k = "nan" THEN NaN ELSE [x EXCEPT !.n = -x.n]

\* x - y
NumSub(x, y) == NumAdd(x, NumNeg(y))

\* x / y
NumDiv(x, y) ==
  IF x.k = "nan" \/ y.k = "nan" THEN NaN
  ELSE IF x.k = "inf" /\ y.k = "inf" THEN NaN
  ELSE IF x.k = "inf" THEN (IF y.n < 0 THEN NumNeg(x) ELSE x)
  ELSE IF y.k = "inf" THEN Zero
  ELSE IF y.n = 0
    THEN (IF x.n = 0 THEN NaN ELSE IF x.n > 0 THEN Infinity ELSE NegInfinity)
  ELSE IF y.n > 0 THEN Fin(x.n * y.d, x.d * y.n)
  ELSE Fin(-(x.n * y.d), x.d * (-y.n))

\* x * y for finite y
NumMul(x, y) ==
  IF x.k = "nan" \/ y.k = "nan" THEN NaN
  ELSE IF x.k = "inf" \/ y.k = "inf"
    THEN (IF Sign(x) * Sign(y) = 0 THEN NaN
          ELSE IF Sign(x) * Sign(y) > 0 THEN Infinity ELSE NegInfinity)
  ELSE Fin(x.n * y.n, x.d * y.d)

\* x < y (false when either is NaN)
NumLt(x, y) ==
  IF x.k = "nan" \/ y.k = "nan" THEN FALSE
  ELSE IF x.k = "inf" THEN x.n < 0 /\ ~(y.k = "inf" /\ y.n < 0)
  ELSE IF y.k = "inf" THEN y.n > 0
  ELSE x.n * y.d < y.n * x.d

\* x <= y (false when either is NaN)
NumLe(x, y) ==
  IF x.k = "nan" \/ y.k = "nan" THEN FALSE ELSE ~NumLt(y, x)

\* x >= y
NumGe(x, y) == NumLe(y, x)

\* ToBoolean of a number: 0 and NaN are falsy
NumTruthy(x) == x.k = "inf" \/ (x.k = "fin" /\ x.n # 0)

(***************************************************************************)
(* JavaScript values held by a listing's fields: [t, num, str].            *)
(***************************************************************************)
Undefined == [t |-> "undefined", num |-> Zero, str |-> <<>>]

Null == [t |-> "null", num |-> Zero, str |-> <<>>]

JNum(x) == [t |-> "number", num |-> x, str |-> <<>>]

JStr(s) == [t |-> "string", num |-> Zero, str |-> s]

\* nullish: what ?. short-circuits on
Nullish(v) == v.t \in {"undefined", "null"}

Digits == <<"0", "1", "2", "3", "4", "5", "6", "7", "8", "9">>

IsDigit(c) == \E i \in 1..10 : Digits[i] = c

DigitVal(c) == (CHOOSE i \in 1..10 : Digits[i] = c) - 1

\* the decimal digits of a natural number
RECURSIVE NatToString(_)
NatToString(n) ==
  IF n < 10 THEN <<Digits[n + 1]>>
  ELSE NatToString(n \div 10) \o <<Digits[(n % 10) + 1]>>

\* the digits of the fraction r/d (0 < r < d), for d whose only prime factors are
\* 2 and 5 (the expansion ends); cut after FracDigits digits otherwise
FracDigits == 6

RECURSIVE FracToString(_, _, _)
FracToString(r, d, left) ==
  IF r = 0 \/ left = 0 THEN <<>>
  ELSE <<Digits[((r * 10) \div d) + 1]>> \o FracToString((r * 10) % d, d, left - 1)

\* Number.prototype.toString
NumToString(x) ==
  IF x.k = "nan" THEN <<"N", "a", "N">>
  ELSE IF x.k = "inf"
    THEN (IF x.n < 0 THEN <<"-">> ELSE <<>>) \o <<"I", "n", "f", "i", "n", "i", "t", "y">>
  ELSE LET a == Abs(x.n)
           ip == NatToString(a \div x.d)
           fp == FracToString(a % x.d, x.d, FracDigits)
       IN  (IF x.n < 0 THEN <<"-">> ELSE <<>>) \o ip
           \o (IF fp = <<>> THEN <<>> ELSE <<".">> \o fp)

\* ToString of a value (String(v), template literals, property keys)
JSToString(v) ==
  CASE v.t = "undefined" -> <<"u", "n", "d", "e", "f", "i", "n", "e", "d">>
    [] v.t = "null" -> <<"n", "u", "l", "l">>
    [] v.t = "number" -> NumToString(v.num)
    [] OTHER -> v.str

(***************************************************************************)
(* String to number conversions.                                           *)
(***************************************************************************)
RECURSIVE Pow10(_)
Pow10(e) == IF e = 0 THEN 1 ELSE 10 * Pow10(e - 1)

\* the number of digits of s from position i on
RECURSIVE DigitRun(_, _)
DigitRun(s, i) ==
  IF i <= Len(s) /\ IsDigit(s[i]) THEN 1 + DigitRun(s, i + 1) ELSE 0

\* the value of the n digits of s from position i on
RECURSIVE DigitsValue(_, _, _)
DigitsValue(s, i, n) ==
  IF n = 0 THEN 0
  ELSE DigitsValue(s, i, n - 1) * 10 + DigitVal(s[i + n - 1])

\* the first position of s, from i on, that holds no white space
RECURSIVE SkipWhiteSpace(_, _)
SkipWhiteSpace(s, i) ==
  IF i <= Len(s) /\ s[i] = " " THEN SkipWhiteSpace(s, i + 1) ELSE i

\* whether s holds the text w at position i
HasPrefixAt(s, i, w) ==
  /\ i + Len(w) - 1 <= Len(s)
  /\ \A j \in 1..Len(w) : s[i + j - 1] = w[j]

\* parseFloat of a string: the longest prefix that is a decimal literal
\* ([+-] Infinity | digits [. digits] [e [+-] digits] | . digits ...), NaN
\* when there is none.  The stages hand the positions on as parameters.
\* the exponent part at position i, applied to the mantissa mant
ScaleByExponent(s, mant, i, ne) ==
  IF ne = 0 THEN mant
  ELSE IF s[i - 1] = "-"
    THEN Fin(mant.n, mant.d * Pow10(DigitsValue(s, i, ne)))
    ELSE Fin(mant.n * Pow10(DigitsValue(s, i, ne)), mant.d)

ParseExponent(s, mant, i3) ==
  IF ~(i3 <= Len(s) /\ s[i3] \in {"e", "E"}) THEN mant
  ELSE IF i3 + 1 <= Len(s) /\ s[i3 + 1] \in {"+", "-"}
    THEN ScaleByExponent(s, mant, i3 + 2, DigitRun(s, i3 + 2))
    ELSE ScaleByExponent(s, mant, i3 + 1, DigitRun(s, i3 + 1))

\* ni digits at i1, then nf digits after a dot
ParseMantissa(s, i1, ni, nf) ==
  IF ni + nf = 0 THEN NaN
  ELSE ParseExponent(s,
         Fin(DigitsValue(s, i1, ni) * Pow10(nf) + DigitsValue(s, i1 + ni + 1, nf),
             Pow10(nf)),
         IF i1 + ni <= Len(s) /\ s[i1 + ni] = "." THEN i1 + ni + 1 + nf ELSE i1 + ni)

ParseDigits(s, i1, ni) ==
  ParseMantissa(s, i1, ni,
                IF i1 + ni <= Len(s) /\ s[i1 + ni] = "."
                  THEN DigitRun(s, i1 + ni + 1) ELSE 0)

ParseUnsigned(s, i1) ==
  IF HasPrefixAt(s, i1, <<"I", "n", "f", "i", "n", "i", "t", "y">>) THEN Infinity
  ELSE ParseDigits(s, i1, DigitRun(s, i1))

ParseSigned(s, i0) ==
  IF i0 <= Len(s) /\ s[i0] = "-" THEN NumNeg(ParseUnsigned(s, i0 + 1))
  ELSE IF i0 <= Len(s) /\ s[i0] = "+" THEN ParseUnsigned(s, i0 + 1)
  ELSE ParseUnsigned(s, i0)

parseFloat(s) == ParseSigned(s, SkipWhiteSpace(s, 1))

\* parseInt of a string in base 10: the longest prefix [+-] digits, NaN when
\* there is none (the texts of the model hold no "0x" prefix)
ParseIntDigits(s, i1, ni) ==
  IF ni = 0 THEN NaN ELSE Whole(DigitsValue(s, i1, ni))

ParseIntSigned(s, i0) ==
  IF i0 <= Len(s) /\ s[i0] = "-"
    THEN NumNeg(ParseIntDigits(s, i0 + 1, DigitRun(s, i0 + 1)))
  ELSE IF i0 <= Len(s) /\ s[i0] = "+"
    THEN ParseIntDigits(s, i0 + 1, DigitRun(s, i0 + 1))
  ELSE ParseIntDigits(s, i0, DigitRun(s, i0))

parseIntStr(s) == ParseIntSigned(s, SkipWhiteSpace(s, 1))

\* s.replace(/[$,]/g, '')
RECURSIVE StripCurrency(_)
StripCurrency(s) ==
  IF s = <<>> THEN <<>>
  ELSE IF Head(s) \in {"$", ","} THEN StripCurrency(Tail(s))
  ELSE <<Head(s)>> \o StripCurrency(Tail(s))

\* x || 0 for a number x
OrZero(x) == IF NumTruthy(x) THEN x ELSE Zero

(***************************************************************************)
(* Listings: functions from field names to values.  item[prop] of a field  *)
(* the listing does not have is undefined.                                 *)
(***************************************************************************)
Get(item, prop) == IF prop \in DOMAIN item THEN item[prop] ELSE Undefined

\* getNumber (chained handler)
getNumber(item, prop) ==
  LET raw == Get(item, prop)
      text == IF Nullish(raw) THEN <<>> ELSE StripCurrency(JSToString(raw))
      value == IF text = <<>> THEN <<"0">> ELSE text
  IN  OrZero(parseFloat(value))

\* createComparator(getValue) with getValue = item => getNumber(item, property)
createComparator(property, a, b) ==
  NumSub(getNumber(a, property), getNumber(b, property))

\* the comparators handed to Array.prototype.sort:
\*   [by |-> "property", property |-> p]   createComparator(item => getNumber(item, p))
\*   [by |-> "count"]                      (a, b) => b[1].count - a[1].count
Compare(cmp, a, b) ==
  IF cmp.by = "property" THEN createComparator(cmp.property, a, b)
  ELSE Whole(b.count - a.count)

\* Array.prototype.sort by an insertion that also moves x before the elements
\* it compares equal to
RECURSIVE InsertSortedUnstable(_, _, _)
InsertSortedUnstable(s, x, cmp) ==
  IF s # <<>> /\ NumLe(Zero, Compare(cmp, s[Len(s)], x))
    THEN Append(InsertSortedUnstable(SubSeq(s, 1, Len(s) - 1), x, cmp), s[Len(s)])
    ELSE Append(s, x)

\* Array.prototype.sort with a comparator: stable (ECMAScript 2019); b goes
\* before a when the comparator's result for (a, b) is > 0, a NaN result counts
\* as 0
RECURSIVE InsertSorted(_, _, _)
InsertSorted(s, x, cmp) ==
  IF s # <<>> /\ NumLt(Zero, Compare(cmp, s[Len(s)], x))
    THEN Append(InsertSorted(SubSeq(s, 1, Len(s) - 1), x, cmp), s[Len(s)])
    ELSE Append(s, x)

\* a sort that leaves the elements that compare equal in reverse order
RECURSIVE ArraySortTiesReversed(_, _)
ArraySortTiesReversed(s, cmp) ==
  IF s = <<>> THEN <<>>
  ELSE InsertSortedUnstable(ArraySortTiesReversed(SubSeq(s, 1, Len(s) - 1), cmp),
                            s[Len(s)], cmp)

RECURSIVE ArraySort(_, _)
ArraySort(s, cmp) ==
  IF s = <<>> THEN <<>>
  ELSE InsertSorted(ArraySort(SubSeq(s, 1, Len(s) - 1), cmp), s[Len(s)], cmp)

\* filterListings with the kept listings in reverse order
filterListingsReversed(data, filters) ==
  LET keep(listing) ==
        LET price == getNumber(listing, "price")
            bedrooms == getNumber(listing, "bedrooms")
            score == getNumber(listing, "review_scores_rating")
        IN  /\ \/ ~NumTruthy(filters.price_max)
               \/ NumGe(price, filters.price_min) /\ NumLe(price, filters.price_max)
            /\ \/ ~NumTruthy(filters.room_max)
               \/ NumGe(bedrooms, filters.room_min) /\ NumLe(bedrooms, filters.room_max)
            /\ \/ ~NumTruthy(filters.score_max)
               \/ NumGe(score, filters.score_min) /\ NumLe(score, filters.score_max)
      kept == SelectSeq(data, keep)
  IN  [i \in 1..Len(kept) |-> kept[Len(kept) + 1 - i]]

\* filterListings with the upper bounds exclusive
filterListingsExclusive(data, filters) ==
  LET keep(listing) ==
        LET price == getNumber(listing, "price")
            bedrooms == getNumber(listing, "bedrooms")
            score == getNumber(listing, "review_scores_rating")
        IN  /\ \/ ~NumTruthy(filters.price_max)
               \/ NumGe(price, filters.price_min) /\ NumLt(price, filters.price_max)
            /\ \/ ~NumTruthy(filters.room_max)
               \/ NumGe(bedrooms, filters.room_min) /\ NumLt(bedrooms, filters.room_max)
            /\ \/ ~NumTruthy(filters.score_max)
               \/ NumGe(score, filters.score_min) /\ NumLt(score, filters.score_max)
  IN  SelectSeq(data, keep)

\* filterListings
filterListings(data, filters) ==
  LET keep(listing) ==
        LET price == getNumber(listing, "price")
            bedrooms == getNumber(listing, "bedrooms")
            score == getNumber(listing, "review_scores_rating")
        IN  /\ \/ ~NumTruthy(filters.price_max)
               \/ NumGe(price, filters.price_min) /\ NumLe(price, filters.price_max)
            /\ \/ ~NumTruthy(filters.room_max)
               \/ NumGe(bedrooms, filters.room_min) /\ NumLe(bedrooms, filters.room_max)
            /\ \/ ~NumTruthy(filters.score_max)
               \/ NumGe(score, filters.score_min) /\ NumLe(score, filters.score_max)
  IN  SelectSeq(data, keep)

\* data.reduce((sum, item) => sum + getNumber(item, prop), 0)
RECURSIVE SumField(_, _)
SumField(data, prop) ==
  IF data = <<>> THEN Zero
  ELSE NumAdd(SumField(SubSeq(data, 1, Len(data) - 1), prop),
              getNumber(data[Len(data)], prop))

\* a test that also accepts a host_id whose text reads as a positive number
ValidHostNumericLooking(item) == NumLt(Zero, getNumber(item, "host_id"))

\* typeof item.host_id === 'number' && item.host_id > 0
ValidHost(item) ==
  LET h == Get(item, "host_id") IN h.t = "number" /\ NumLt(Zero, h.num)

\* calculateStats with a total of 0 bedrooms counted as one room
calculateStatsRoomFloor(data) ==
  LET totalPrice == SumField(data, "price")
      totalRooms == IF NumTruthy(SumField(data, "bedrooms"))
                      THEN SumField(data, "bedrooms") ELSE Whole(1)
  IN  [count |-> Len(data),
       averagePrice |-> NumDiv(totalPrice, Whole(Len(data))),
       avgPricePerRoom |-> NumDiv(totalPrice, totalRooms),
       validListings |-> Len(SelectSeq(data, ValidHost))]

\* calculateStats
calculateStats(data) ==
  LET totalPrice == SumField(data, "price")
      totalRooms == SumField(data, "bedrooms")
  IN  [count |-> Len(data),
       averagePrice |-> NumDiv(totalPrice, Whole(Len(data))),
       avgPricePerRoom |-> NumDiv(totalPrice, totalRooms),
       validListings |-> Len(SelectSeq(data, ValidHost))]

(***************************************************************************)
(* rankHosts: the accumulator object is the sequence of its properties in  *)
(* creation order; Object.entries lists the array-index keys first, in     *)
(* ascending numeric order, then the other keys in creation order.         *)
(***************************************************************************)
\* a key that keeps the type of host_id apart from its text
HostKeyTyped(listing) ==
  <<Get(listing, "host_id").t>> \o JSToString(Get(listing, "host_id"))

\* ToPropertyKey(listing.host_id)
HostKey(listing) == JSToString(Get(listing, "host_id"))

\* the largest array index, 2^32 - 2, as text
MaxArrayIndexText == <<"4", "2", "9", "4", "9", "6", "7", "2", "9", "4">>

\* a < b for two texts of digits without leading zeros
RECURSIVE DigitsLess(_, _)
DigitsLess(a, b) ==
  IF Len(a) # Len(b) THEN Len(a) < Len(b)
  ELSE IF a = <<>> THEN FALSE
  ELSE IF Head(a) # Head(b) THEN DigitVal(Head(a)) < DigitVal(Head(b))
  ELSE DigitsLess(Tail(a), Tail(b))

\* whether a property key is an array index (a canonical numeric string
\* below 2^32 - 1)
IsArrayIndex(key) ==
  /\ key # <<>>
  /\ DigitRun(key, 1) = Len(key)
  /\ Len(key) = 1 \/ key[1] # "0"
  /\ ~DigitsLess(MaxArrayIndexText, key)

\* the position of key among the properties acc, 0 when it has none
KeyIndex(acc, key) ==
  IF \E i \in 1..Len(acc) : acc[i].id = key
    THEN CHOOSE i \in 1..Len(acc) : acc[i].id = key
    ELSE 0

\* a reduce step that counts a host once, however many listings it has
rankStepCountsOnce(acc, listing) ==
  LET key == HostKey(listing)
      i == KeyIndex(acc, key)
  IN  IF i = 0
        THEN Append(acc, [id |-> key, name |-> Get(listing, "host_name"), count |-> 1])
        ELSE [acc EXCEPT ![i] = [id |-> key, name |-> Get(listing, "host_name"),
                                 count |-> 1]]

\* one step of the reduce of rankHosts (chained handler):
\* {...acc, [listing.host_id]: {name: listing.host_name,
\*                              count: (acc[listing.host_id]?.count || 0) + 1}}
rankStep(acc, listing) ==
  LET key == HostKey(listing)
      i == KeyIndex(acc, key)
  IN  IF i = 0
        THEN Append(acc, [id |-> key, name |-> Get(listing, "host_name"), count |-> 1])
        ELSE [acc EXCEPT ![i] = [id |-> key, name |-> Get(listing, "host_name"),
                                 count |-> acc[i].count + 1]]

RECURSIVE rankReduce(_)
rankReduce(data) ==
  IF data = <<>> THEN <<>>
  ELSE rankStep(rankReduce(SubSeq(data, 1, Len(data) - 1)), data[Len(data)])

\* the array-index properties of acc in ascending numeric order
RECURSIVE InsertIndexKey(_, _)
InsertIndexKey(s, e) ==
  IF s # <<>> /\ DigitsLess(e.id, s[Len(s)].id)
    THEN Append(InsertIndexKey(SubSeq(s, 1, Len(s) - 1), e), s[Len(s)])
    ELSE Append(s, e)

RECURSIVE IndexKeysAscending(_)
IndexKeysAscending(acc) ==
  IF acc = <<>> THEN <<>>
  ELSE LET rest == IndexKeysAscending(SubSeq(acc, 1, Len(acc) - 1))
           e == acc[Len(acc)]
       IN  IF IsArrayIndex(e.id) THEN InsertIndexKey(rest, e) ELSE rest

\* the properties in creation order, array-index keys included
ObjectEntriesInCreationOrder(acc) == acc

\* Object.entries
ObjectEntries(acc) ==
  LET other(e) == ~IsArrayIndex(e.id)
  IN  IndexKeysAscending(acc) \o SelectSeq(acc, other)

\* rankHosts (chained handler)
rankHosts(data) == ArraySort(ObjectEntries(rankReduce(data)), [by |-> "count"])

\* rankHosts(limit = 10) of the handler: the parameter's default
DefaultLimit == 10

\* a slice that takes one element more
Slice0OneMore(s, end) ==
  LET to == IF end < 0 THEN Max(Len(s) + end + 1, 0) ELSE Min(end + 1, Len(s))
  IN  SubSeq(s, 1, to)

\* Array.prototype.slice(0, end) for an integer end
Slice0(s, end) ==
  LET to == IF end < 0 THEN Max(Len(s) + end, 0) ELSE Min(end, Len(s))
  IN  SubSeq(s, 1, to)

(***************************************************************************)
(* The stateful handler (src/unnamed/part_002).                            *)
(***************************************************************************)
\* parseFloat(listing.price?.toString().replace(/[$,]/g, '')) || 0
StatefulPrice(listing) ==
  IF Nullish(Get(listing, "price")) THEN Zero
  ELSE OrZero(parseFloat(StripCurrency(JSToString(Get(listing, "price")))))

\* parseInt(listing.bedrooms) || 0
StatefulBedrooms(listing) ==
  OrZero(parseIntStr(JSToString(Get(listing, "bedrooms"))))

\* parseFloat(listing.review_scores_rating) || 0
StatefulScore(listing) ==
  OrZero(parseFloat(JSToString(Get(listing, "review_scores_rating"))))

\* x === 0
IsZero(x) == x.k = "fin" /\ x.n = 0

\* filter of the stateful handler: the new value of filteredListings
StatefulFilter(rows, filters) ==
  LET keep(listing) ==
        /\ \/ IsZero(filters.price_max)
           \/ /\ NumGe(StatefulPrice(listing), filters.price_min)
              /\ NumLe(StatefulPrice(listing), filters.price_max)
        /\ \/ IsZero(filters.room_max)
           \/ /\ NumGe(StatefulBedrooms(listing), filters.room_min)
              /\ NumLe(StatefulBedrooms(listing), filters.room_max)
        /\ \/ IsZero(filters.score_max)
           \/ /\ NumGe(StatefulScore(listing), filters.score_min)
              /\ NumLe(StatefulScore(listing), filters.score_max)
  IN  SelectSeq(rows, keep)

\* Number.prototype.toFixed(2): the nearest multiple of 0.01, the larger of two
\* equally near ones, with two digits after the point
Fixed2Text(negative, hundredths) ==
  (IF negative THEN <<"-">> ELSE <<>>) \o NatToString(hundredths \div 100)
  \o <<".", Digits[((hundredths \div 10) % 10) + 1], Digits[(hundredths % 10) + 1]>>

toFixed2(x) ==
  IF x.k # "fin" THEN NumToString(x)
  ELSE Fixed2Text(x.n < 0, (200 * Abs(x.n) + x.d) \div (2 * x.d))

\* row.price_per_room = (price / (rooms || 1)).toFixed(2)
StatefulPricePerRoom(listing) ==
  JStr(toFixed2(NumDiv(StatefulPrice(listing),
                       IF NumTruthy(StatefulBedrooms(listing))
                         THEN StatefulBedrooms(listing) ELSE Whole(1))))

\* the row objects of rows that are also in filtered get the field
\* price_per_room: computeStats of the stateful handler writes it into the
\* objects, which data and filteredListings share
Annotate(rows, filtered) ==
  [i \in 1..Len(rows) |->
     IF \E j \in 1..Len(filtered) : filtered[j].id = rows[i].id
       THEN [f \in DOMAIN rows[i] \cup {"price_per_room"} |->
               IF f = "price_per_room" THEN StatefulPricePerRoom(rows[i])
               ELSE rows[i][f]]
       ELSE rows[i]]

\* what computeStats of the stateful handler prints:
\* Math.round(x * 100) / 100 of the two averages
MathRound100(x) ==
  IF x.k # "fin" THEN x
  ELSE Fin((200 * x.n + x.d) \div (2 * x.d), 100)

StatefulSum(rows, which) ==
  IF which = "price"
    THEN [i \in 1..Len(rows) |-> StatefulPrice(rows[i])]
    ELSE [i \in 1..Len(rows) |-> StatefulBedrooms(rows[i])]

RECURSIVE SumSeq(_)
SumSeq(xs) ==
  IF xs = <<>> THEN Zero
  ELSE NumAdd(SumSeq(SubSeq(xs, 1, Len(xs) - 1)), xs[Len(xs)])

StatefulStats(filtered) ==
  [count |-> Len(filtered),
   averagePrice |->
     MathRound100(NumDiv(SumSeq(StatefulSum(filtered, "price")), Whole(Len(filtered)))),
   avgPricePerRoom |->
     MathRound100(NumDiv(SumSeq(StatefulSum(filtered, "price")),
                         SumSeq(StatefulSum(filtered, "bedrooms")))),
   validListings |-> Len(SelectSeq(filtered, ValidHost))]

\* sortedHosts.slice(0, 10) of the stateful handler
TopHosts == 10

\* one step of the reduce of rankHosts (stateful handler):
\* acc[id] = acc[id] || {name: listing.host_name, count: 0}; acc[id].count++
StatefulRankStep(acc, listing) ==
  IF KeyIndex(acc, HostKey(listing)) = 0
    THEN Append(acc, [id |-> HostKey(listing), name |-> Get(listing, "host_name"),
                      count |-> 1])
    ELSE [acc EXCEPT ![KeyIndex(acc, HostKey(listing))].count = @ + 1]

RECURSIVE StatefulRankReduce(_)
StatefulRankReduce(rows) ==
  IF rows = <<>> THEN <<>>
  ELSE StatefulRankStep(StatefulRankReduce(SubSeq(rows, 1, Len(rows) - 1)),
                        rows[Len(rows)])

\* rankHosts of the stateful handler: the ten entries it prints
StatefulRankHosts(filtered) ==
  Slice0(ArraySort(ObjectEntries(StatefulRankReduce(filtered)), [by |-> "count"]),
         TopHosts)

(***************************************************************************)
(* Input sets.  A listing carries its row number as its id, so that two    *)
(* rows with the same contents stay two listings.                          *)
(***************************************************************************)
Text200 == <<"$", "2", "0", "0">>
Text100 == <<"$", "1", "0", "0">>
Text50 == <<"$", "5", "0">>
Text1234 == <<"$", "1", ",", "2", "3", "4", ".", "5", "0">>

\* (price, bedrooms, review_scores_rating) of the rows that vary the numeric
\* fields; the first three are the rows of the scenario of the specification
NumericRows ==
  { <<JStr(Text200), JNum(Whole(2)), JNum(Fin(9, 2))>>,
    <<JStr(Text100), JNum(Whole(1)), JNum(Whole(3))>>,
    <<JStr(Text50), JNum(Whole(1)), JNum(Whole(5))>>,
    <<JStr(Text1234), JStr(<<"2", ".", "5">>), Undefined>>,
    <<JNum(Whole(100)), JNum(Whole(0)), Null>>,
    <<Null, Null, Null>> }

\* (host_id, host_name) of the rows that vary the host
HostRows ==
  { <<JNum(Whole(1)), JStr(<<"A">>)>>,
    <<JNum(Whole(1)), JStr(<<"B">>)>>,
    <<JStr(<<"1">>), JStr(<<"C">>)>>,
    <<JNum(Whole(7)), JStr(<<"A">>)>>,
    <<JNum(Whole(3)), JStr(<<"B">>)>>,
    <<Undefined, JStr(<<"D">>)>>,
    <<JStr(<<"u", "n", "d", "e", "f", "i", "n", "e", "d">>), JStr(<<"E">>)>>,
    <<JStr(<<"x">>), JStr(<<"F">>)>> }

Row(numeric, host) ==
  [price |-> numeric[1], bedrooms |-> numeric[2], review_scores_rating |-> numeric[3],
   host_id |-> host[1], host_name |-> host[2]]

\* rows that differ in their numeric fields, all of host 1 "A"
PriceRows == { Row(n, <<JNum(Whole(1)), JStr(<<"A">>)>>) : n \in NumericRows }

\* rows that differ in their host, all "$100", 1 bedroom, score 4.5
RankRows ==
  { Row(<<JStr(Text100), JNum(Whole(1)), JNum(Fin(9, 2))>>, h) : h \in HostRows }

\* the dataset of the rows rs: row i becomes the listing with id i
Dataset(rs) ==
  [i \in 1..Len(rs) |->
     [id |-> JNum(Whole(i)), price |-> rs[i].price, bedrooms |-> rs[i].bedrooms,
      review_scores_rating |-> rs[i].review_scores_rating,
      host_id |-> rs[i].host_id, host_name |-> rs[i].host_name]]

\* every dataset of at most MaxLen rows drawn from pool
Datasets(pool) ==
  { Dataset(rs) : rs \in UNION { [1..n -> pool] : n \in 0..MaxLen } }

\* the (min, max) pairs a filter dimension is given
PriceBounds == { <<Zero, Zero>>, <<Whole(100), Zero>>, <<Whole(100), Whole(200)>> }
RoomBounds == { <<Zero, Zero>>, <<Whole(1), Whole(2)>> }
ScoreBounds == { <<Whole(5), Zero>>, <<Whole(3), Fin(9, 2)>> }

\* FilterParameters
Filters ==
  { [price_min |-> p[1], price_max |-> p[2], room_min |-> r[1], room_max |-> r[2],
     score_min |-> sc[1], score_max |-> sc[2]] :
    p \in PriceBounds, r \in RoomBounds, sc \in ScoreBounds }

\* the default filters of askFilterData: no dimension constrained
NoFilters ==
  [price_min |-> Zero, price_max |-> Zero, room_min |-> Zero, room_max |-> Zero,
   score_min |-> Zero, score_max |-> Zero]

\* the property names order is given; no listing has the last one
Properties == {"price", "bedrooms", "host_id", "host_name", "accommodates"}

\* the limits rankHosts is given: -1 stands for no argument (the default)
NoArgument == -1

Limits == (0..MaxLimit) \cup {NoArgument}

(***************************************************************************)
(* State.                                                                  *)
(*   data  the dataset the chained handler in hand closes over             *)
(*   call  the last method call made on a chained handler by a caller:     *)
(*         its receiver's dataset before the call, its argument, and what  *)
(*         it returned and printed (value: the number a getNumber call     *)
(*         returned)                                                       *)
(* and, of a run of the program (run() and the main execution):            *)
(*   pc                 where run() stands                                 *)
(*   impl               which run(): "chained" (part_001 over part_003) or *)
(*                      "stateful" (AirBnBDataProcessor.js over part_002)  *)
(*   file               the rows of listings.csv                           *)
(*   csvData            the rows readCsv decoded                           *)
(*   filteredListings   filteredListings of the stateful handler           *)
(*   filterData, order, path   the answers to the three prompts            *)
(*   encoded            the datasets handed to csvFormat, in order         *)
(*   written            whether writeFile committed the output file        *)
(*   exitCode           the code handed to process.exit, NoExit before     *)
(*   stages             the stages that have run, in order                 *)
(*   stats, ranked      the statistics and the ranking printed             *)
(***************************************************************************)
VARIABLES data, call, pc, impl, file, csvData, filteredListings, filterData,
          order, path, encoded, written, exitCode, stages, stats, ranked

handlerVars == <<data, call>>

runVars == <<pc, impl, file, csvData, filteredListings, filterData, order, path,
             encoded, written, exitCode, stages, stats, ranked>>

vars == <<data, call, pc, impl, file, csvData, filteredListings, filterData,
          order, path, encoded, written, exitCode, stages, stats, ranked>>

\* exitCode while the process runs
NoExit == -1

NoCall ==
  [op |-> "none", receiver |-> <<>>, filters |-> NoFilters, limit |-> NoArgument,
   property |-> "", returned |-> <<>>, stats |-> calculateStats(<<>>),
   ranked |-> <<>>, value |-> Zero]

\* no run of the program: a caller holds a chained handler
NoRun ==
  /\ pc = "idle"
  /\ impl = "chained"
  /\ file = <<>>
  /\ csvData = <<>>
  /\ filteredListings = <<>>
  /\ filterData = NoFilters
  /\ order = ""
  /\ path = ""
  /\ encoded = <<>>
  /\ written = FALSE
  /\ exitCode = NoExit
  /\ stages = <<>>
  /\ stats = calculateStats(<<>>)
  /\ ranked = <<>>

Init ==
  /\ data \in Datasets(PriceRows)
  /\ call = NoCall
  /\ NoRun

InitHosts ==
  /\ data \in Datasets(RankRows)
  /\ call = NoCall
  /\ NoRun

\* handler.filter(filters): a new handler over the filtered listings
Filter(filters) ==
  /\ call.op = "none"
  /\ call' = [NoCall EXCEPT !.op = "filter", !.receiver = data, !.filters = filters,
                            !.returned = filterListings(data, filters)]
  /\ UNCHANGED <<data, runVars>>

\* handler.computeStats(): prints the statistics, returns the handler itself
ComputeStats ==
  /\ call.op = "none"
  /\ call' = [NoCall EXCEPT !.op = "computeStats", !.receiver = data,
                            !.stats = calculateStats(data), !.returned = data]
  /\ UNCHANGED <<data, runVars>>

\* handler.rankHosts(limit = 10): prints the ranking, returns the handler itself
RankHosts(limit) ==
  /\ call.op = "none"
  /\ call' = [NoCall EXCEPT !.op = "rankHosts", !.receiver = data, !.limit = limit,
                !.ranked = Slice0(rankHosts(data),
                                  IF limit = NoArgument THEN DefaultLimit ELSE limit),
                !.returned = data]
  /\ UNCHANGED <<data, runVars>>

\* an order that sorts the array of its own handler: data.sort(comparator)
OrderInPlace(property) ==
  /\ call.op = "none"
  /\ call' = [NoCall EXCEPT !.op = "order", !.receiver = data, !.property = property,
                !.returned = ArraySort(data, [by |-> "property", property |-> property])]
  /\ data' = ArraySort(data, [by |-> "property", property |-> property])
  /\ UNCHANGED runVars

\* handler.order(property): a new handler over a sorted copy
Order(property) ==
  /\ call.op = "none"
  /\ call' = [NoCall EXCEPT !.op = "order", !.receiver = data, !.property = property,
                !.returned = ArraySort(data, [by |-> "property", property |-> property])]
  /\ UNCHANGED <<data, runVars>>

\* the caller goes on with the handler the last call returned
Chain ==
  /\ call.op # "none"
  /\ data' = call.returned
  /\ call' = NoCall
  /\ UNCHANGED runVars

\* the caller goes on with the handler it made the last call on
Keep ==
  /\ call.op # "none"
  /\ call' = NoCall
  /\ UNCHANGED <<data, runVars>>

Next ==
  \/ \E filters \in Filters : Filter(filters)
  \/ ComputeStats
  \/ \E limit \in Limits : RankHosts(limit)
  \/ \E property \in Properties : Order(property)
  \/ Chain
  \/ Keep

Spec == Init /\ [][Next]_vars

SpecHosts == InitHosts /\ [][Next]_vars

(***************************************************************************)
(* A run of the program: run() of either implementation, one action per    *)
(* stage, and the main execution's process.exit.                           *)
(***************************************************************************)
\* the rows of listings.csv in a run
RunRows ==
  { Row(<<JStr(Text200), JNum(Whole(2)), JNum(Fin(9, 2))>>,
        <<JNum(Whole(7)), JStr(<<"A">>)>>),
    Row(<<JStr(Text100), JNum(Whole(1)), JNum(Whole(3))>>,
        <<JNum(Whole(3)), JStr(<<"B">>)>>),
    Row(<<JNum(Whole(100)), JNum(Whole(0)), Null>>,
        <<JNum(Whole(7)), JStr(<<"C">>)>>),
    Row(<<JStr(Text50), JStr(<<"2", ".", "5">>), JNum(Whole(5))>>,
        <<Null, JStr(<<"D">>)>>) }

\* the filters the user answers with
RunFilters ==
  { NoFilters,
    [NoFilters EXCEPT !.price_min = Whole(100), !.price_max = Whole(200)],
    [NoFilters EXCEPT !.room_min = Whole(1), !.room_max = Whole(2),
                      !.score_min = Whole(5)],
    [NoFilters EXCEPT !.price_min = Whole(100), !.price_max = Whole(200),
                      !.score_min = Whole(5), !.score_max = Whole(5)] }

\* the answers to the order prompt ("" is the Enter key alone)
OrderAnswers == {"", "price", "bedrooms", "price_per_room"}

\* the answers to the output path prompt
PathAnswers == {"", "result.csv"}

InitRun ==
  /\ pc = "readCsv"
  /\ impl \in {"chained", "stateful"}
  /\ file \in Datasets(RunRows)
  /\ data = <<>>
  /\ call = NoCall
  /\ csvData = <<>>
  /\ filteredListings = <<>>
  /\ filterData = NoFilters
  /\ order = ""
  /\ path = ""
  /\ encoded = <<>>
  /\ written = FALSE
  /\ exitCode = NoExit
  /\ stages = <<>>
  /\ stats = calculateStats(<<>>)
  /\ ranked = <<>>

\* process.exit(code): the process ends, nothing runs after it
Exit(code) ==
  /\ exitCode' = code
  /\ pc' = "done"

\* readCsv: the file is read and decoded; the chained run wraps the rows in
\* myHandler = AirBnBDataHandler(data)
ReadCsv ==
  /\ pc = "readCsv"
  /\ stages' = Append(stages, "load")
  /\ csvData' = file
  /\ data' = IF impl = "chained" THEN file ELSE data
  /\ pc' = "askFilterData"
  /\ UNCHANGED <<call, impl, file, filteredListings, filterData, order, path,
                 encoded, written, exitCode, stats, ranked>>

\* a failed read after which run() goes on
ReadCsvFailsGoesOn ==
  /\ pc = "readCsv"
  /\ stages' = Append(stages, "load")
  /\ pc' = "askFilterData"
  /\ UNCHANGED <<data, call, impl, file, csvData, filteredListings, filterData,
                 order, path, encoded, written, exitCode, stats, ranked>>

\* readCsv when the file cannot be read or parsed: process.exit(1)
ReadCsvFails ==
  /\ pc = "readCsv"
  /\ stages' = stages \o <<"load", "exit">>
  /\ Exit(1)
  /\ UNCHANGED <<data, call, impl, file, csvData, filteredListings, filterData,
                 order, path, encoded, written, stats, ranked>>

\* askFilterData: the three prompts, answered
AskFilterData(filters) ==
  /\ pc = "askFilterData"
  /\ filterData' = filters
  /\ pc' = "filter"
  /\ UNCHANGED <<data, call, impl, file, csvData, filteredListings, order, path,
                 encoded, written, exitCode, stages, stats, ranked>>

\* myHandler.filter(filterData)
RunFilter ==
  /\ pc = "filter"
  /\ stages' = Append(stages, "filter")
  /\ data' = IF impl = "chained" THEN filterListings(data, filterData) ELSE data
  /\ filteredListings' =
       IF impl = "stateful" THEN StatefulFilter(csvData, filterData)
       ELSE filteredListings
  /\ pc' = "computeStats"
  /\ UNCHANGED <<call, impl, file, csvData, filterData, order, path, encoded,
                 written, exitCode, stats, ranked>>

\* .computeStats(): the chained handler prints; the stateful handler prints
\* and writes price_per_room into the filtered row objects
RunComputeStats ==
  /\ pc = "computeStats"
  /\ stages' = Append(stages, "computeStats")
  /\ stats' = IF impl = "chained" THEN calculateStats(data)
              ELSE StatefulStats(filteredListings)
  /\ csvData' = IF impl = "stateful" THEN Annotate(csvData, filteredListings)
                ELSE csvData
  /\ filteredListings' =
       IF impl = "stateful" THEN Annotate(filteredListings, filteredListings)
       ELSE filteredListings
  /\ pc' = "rankHosts"
  /\ UNCHANGED <<data, call, impl, file, filterData, order, path, encoded,
                 written, exitCode, ranked>>

\* .rankHosts()
RunRankHosts ==
  /\ pc = "rankHosts"
  /\ stages' = Append(stages, "rankHosts")
  /\ ranked' = IF impl = "chained" THEN Slice0(rankHosts(data), DefaultLimit)
               ELSE StatefulRankHosts(filteredListings)
  /\ pc' = "askOrder"
  /\ UNCHANGED <<data, call, impl, file, csvData, filteredListings, filterData,
                 order, path, encoded, written, exitCode, stats>>

\* askOrder, answered; if (order) ...
AskOrder(answer) ==
  /\ pc = "askOrder"
  /\ order' = answer
  /\ pc' = IF answer = "" THEN "askOutputPath" ELSE "order"
  /\ UNCHANGED <<data, call, impl, file, csvData, filteredListings, filterData,
                 path, encoded, written, exitCode, stages, stats, ranked>>

\* order of the stateful handler reads filteredListings[0][property] first:
\* a TypeError when filteredListings is empty
OrderThrows == impl = "stateful" /\ filteredListings = <<>>

\* filtered.order(order) / myHandler.order(order)
RunOrder ==
  /\ pc = "order"
  /\ ~OrderThrows
  /\ stages' = Append(stages, "order")
  /\ data' = IF impl = "chained"
               THEN ArraySort(data, [by |-> "property", property |-> order])
               ELSE data
  /\ filteredListings' =
       IF impl = "stateful"
         THEN ArraySort(filteredListings, [by |-> "property", property |-> order])
         ELSE filteredListings
  /\ pc' = "askOutputPath"
  /\ UNCHANGED <<call, impl, file, csvData, filterData, order, path, encoded,
                 written, exitCode, stats, ranked>>

\* the TypeError of order rejects run(): the main execution's catch, process.exit(1)
RunOrderFails ==
  /\ pc = "order"
  /\ OrderThrows
  /\ stages' = stages \o <<"order", "exit">>
  /\ Exit(1)
  /\ UNCHANGED <<data, call, impl, file, csvData, filteredListings, filterData,
                 order, path, encoded, written, stats, ranked>>

\* askOutputPath followed by an export whatever the answer is
AskOutputPathAlwaysExports(answer) ==
  /\ pc = "askOutputPath"
  /\ path' = answer
  /\ pc' = "export"
  /\ UNCHANGED <<data, call, impl, file, csvData, filteredListings, filterData,
                 order, encoded, written, exitCode, stages, stats, ranked>>

\* askOutputPath, answered; if (path) ...
AskOutputPath(answer) ==
  /\ pc = "askOutputPath"
  /\ path' = answer
  /\ pc' = IF answer = "" THEN "exit" ELSE "export"
  /\ UNCHANGED <<data, call, impl, file, csvData, filteredListings, filterData,
                 order, encoded, written, exitCode, stages, stats, ranked>>

\* an export that encodes the rows as they were read
WorkingAsRead == csvData

\* the dataset writeToFile / writeIntoFile hands to csvFormat
Working == IF impl = "chained" THEN data ELSE filteredListings

\* writeToFile / writeIntoFile when writeFile succeeds
RunExport ==
  /\ pc = "export"
  /\ stages' = Append(stages, "export")
  /\ encoded' = Append(encoded, Working)
  /\ written' = TRUE
  /\ pc' = "exit"
  /\ UNCHANGED <<data, call, impl, file, csvData, filteredListings, filterData,
                 order, path, exitCode, stats, ranked>>

\* a failed write that is only reported, in either implementation
RunExportFailsReported ==
  /\ pc = "export"
  /\ encoded' = Append(encoded, Working)
  /\ stages' = Append(stages, "export")
  /\ pc' = "exit"
  /\ UNCHANGED <<data, call, impl, file, csvData, filteredListings, filterData,
                 order, path, written, exitCode, stats, ranked>>

\* writeFile fails: writeToFile (chained) throws, run() rejects, process.exit(1);
\* writeIntoFile (stateful) prints the error and returns
RunExportFails ==
  /\ pc = "export"
  /\ encoded' = Append(encoded, Working)
  /\ IF impl = "chained"
       THEN /\ stages' = stages \o <<"export", "exit">>
            /\ Exit(1)
       ELSE /\ stages' = Append(stages, "export")
            /\ pc' = "exit"
            /\ UNCHANGED exitCode
  /\ UNCHANGED <<data, call, impl, file, csvData, filteredListings, filterData,
                 order, path, written, stats, ranked>>

\* run() returned: process.exit(0)
ExitSuccess ==
  /\ pc = "exit"
  /\ stages' = Append(stages, "exit")
  /\ Exit(0)
  /\ UNCHANGED <<data, call, impl, file, csvData, filteredListings, filterData,
                 order, path, encoded, written, stats, ranked>>

NextRun ==
  \/ ReadCsv
  \/ ReadCsvFails
  \/ \E filters \in RunFilters : AskFilterData(filters)
  \/ RunFilter
  \/ RunComputeStats
  \/ RunRankHosts
  \/ \E answer \in OrderAnswers : AskOrder(answer)
  \/ RunOrder
  \/ RunOrderFails
  \/ \E answer \in PathAnswers : AskOutputPath(answer)
  \/ RunExport
  \/ RunExportFails
  \/ ExitSuccess

SpecRun == InitRun /\ [][NextRun]_vars

(***************************************************************************)
(* Handlers over listings that differ in the kind of their host_id.        *)
(***************************************************************************)
\* rows that differ in the kind of their host_id, all "$100", 1 bedroom,
\* score 4.5, host "A"
ValidRows ==
  { Row(<<JStr(Text100), JNum(Whole(1)), JNum(Fin(9, 2))>>, <<h, JStr(<<"A">>)>>) :
      h \in { JNum(Whole(5)), JNum(Fin(5, 2)), JNum(Zero), JNum(Whole(-1)),
              JNum(NaN), JStr(<<"5">>), Null, Undefined } }

InitValid ==
  /\ data \in Datasets(ValidRows)
  /\ call = NoCall
  /\ NoRun

SpecValid == InitValid /\ [][Next]_vars

(***************************************************************************)
(* getNumber on its own: a record with one field, or none, and a call of   *)
(* getNumber on it.                                                        *)
(***************************************************************************)
MaxText == 3

\* the characters of the short field texts
TextAlphabet == {"$", ",", "1", "0", ".", "-", "x", " "}

\* every text of at most MaxText characters, and some longer ones
FieldTexts ==
  UNION { [1..n -> TextAlphabet] : n \in 0..MaxText }
  \cup { Text1234, Text100,
         <<"I", "n", "f", "i", "n", "i", "t", "y">>,
         <<"-", "I", "n", "f", "i", "n", "i", "t", "y">>,
         <<"N", "a", "N">>,
         <<"1", "e", "2">>,
         <<"$", "1", ".", "5", "e", "-", "1">> }

\* the values csvParse with autoType, or any caller, puts into a field
FieldValues ==
  { JStr(t) : t \in FieldTexts }
  \cup { JNum(x) : x \in {Zero, Whole(100), Fin(9, 2), Whole(-3), NaN, Infinity,
                          NegInfinity} }
  \cup {Null, Undefined}

\* records with the field price, and the record without it
NumberRecords ==
  { [id |-> JNum(Whole(1)), price |-> v] : v \in FieldValues }
  \cup { [id |-> JNum(Whole(1))] }

InitNumber ==
  /\ data \in { <<r>> : r \in NumberRecords }
  /\ call = NoCall
  /\ NoRun

\* getNumber(item, prop) for the record of data
GetNumber(prop) ==
  /\ call.op = "none"
  /\ call' = [NoCall EXCEPT !.op = "getNumber", !.receiver = data, !.property = prop,
                            !.value = getNumber(data[1], prop), !.returned = data]
  /\ UNCHANGED <<data, runVars>>

NextNumber ==
  \/ \E prop \in {"price", "bedrooms"} : GetNumber(prop)
  \/ Keep

SpecNumber == InitNumber /\ [][NextNumber]_vars

(***************************************************************************)
(* Successive calls on one handler of either implementation.  The stateful *)
(* handler (part_002) has readCsv behind it: file holds the rows as they   *)
(* were loaded, csvData is its variable data, whose row objects            *)
(* computeStats writes into.                                               *)
(***************************************************************************)
\* the rows of the datasets: prices as text and as a number, a fractional
\* bedrooms text, no bedrooms
ComposeRows ==
  { Row(n, <<JNum(Whole(1)), JStr(<<"A">>)>>) :
      n \in { <<JStr(Text200), JNum(Whole(2)), JNum(Fin(9, 2))>>,
              <<JStr(Text100), JNum(Whole(1)), JNum(Whole(3))>>,
              <<JStr(Text1234), JStr(<<"2", ".", "5">>), Undefined>>,
              <<JNum(Whole(100)), JNum(Whole(0)), Null>> } }

\* the filters given in a sequence of calls
ComposeFilters ==
  { NoFilters,
    [NoFilters EXCEPT !.price_min = Whole(100), !.price_max = Whole(200)],
    [NoFilters EXCEPT !.room_min = Whole(1), !.room_max = Whole(2)],
    [NoFilters EXCEPT !.price_min = Whole(100), !.score_min = Whole(3),
                      !.score_max = Fin(9, 2)] }

\* the properties order is given in a sequence of calls
ComposeProperties == {"price", "bedrooms", "price_per_room"}

InitCompose ==
  /\ impl \in {"chained", "stateful"}
  /\ data \in Datasets(ComposeRows)
  /\ file = data
  /\ csvData = data
  /\ call = NoCall
  /\ pc = "idle"
  /\ filteredListings = <<>>
  /\ filterData = NoFilters
  /\ order = ""
  /\ path = ""
  /\ encoded = <<>>
  /\ written = FALSE
  /\ exitCode = NoExit
  /\ stages = <<>>
  /\ stats = calculateStats(<<>>)
  /\ ranked = <<>>

\* a filter that narrows the listings the handler filtered before
StatefulFilterNarrows(filters) ==
  /\ filteredListings' = StatefulFilter(filteredListings, filters)
  /\ filterData' = filters
  /\ call' = [NoCall EXCEPT !.op = "filter", !.filters = filters]
  /\ UNCHANGED <<data, pc, impl, file, csvData, order, path, encoded, written,
                 exitCode, stages, stats, ranked>>

\* filter(filters) of the stateful handler
StatefulFilterCall(filters) ==
  /\ filteredListings' = StatefulFilter(csvData, filters)
  /\ filterData' = filters
  /\ call' = [NoCall EXCEPT !.op = "filter", !.filters = filters]
  /\ UNCHANGED <<data, pc, impl, file, csvData, order, path, encoded, written,
                 exitCode, stages, stats, ranked>>

\* computeStats() of the stateful handler
StatefulComputeStats ==
  /\ stats' = StatefulStats(filteredListings)
  /\ csvData' = Annotate(csvData, filteredListings)
  /\ filteredListings' = Annotate(filteredListings, filteredListings)
  /\ call' = [NoCall EXCEPT !.op = "computeStats"]
  /\ UNCHANGED <<data, pc, impl, file, filterData, order, path, encoded, written,
                 exitCode, stages, ranked>>

\* order(property) of the stateful handler: sorts filteredListings in place
StatefulOrder(property) ==
  /\ ~OrderThrows
  /\ filteredListings' =
       ArraySort(filteredListings, [by |-> "property", property |-> property])
  /\ order' = property
  /\ call' = [NoCall EXCEPT !.op = "order", !.property = property]
  /\ UNCHANGED <<data, pc, impl, file, csvData, filterData, path, encoded, written,
                 exitCode, stages, stats, ranked>>

\* order(property) of the stateful handler on an empty filteredListings: the
\* TypeError leaves the handler as it was
StatefulOrderThrows(property) ==
  /\ OrderThrows
  /\ call' = [NoCall EXCEPT !.op = "orderThrew", !.property = property]
  /\ UNCHANGED <<data, runVars>>

NextCompose ==
  \/ impl = "chained" /\ \E filters \in ComposeFilters : Filter(filters)
  \/ impl = "chained" /\ Chain
  \/ impl = "chained" /\ Keep
  \/ impl = "stateful" /\ \E filters \in ComposeFilters : StatefulFilterCall(filters)
  \/ impl = "stateful" /\ StatefulComputeStats
  \/ impl = "stateful" /\ \E property \in ComposeProperties : StatefulOrder(property)
  \/ impl = "stateful" /\ \E property \in ComposeProperties : StatefulOrderThrows(property)

SpecCompose == InitCompose /\ [][NextCompose]_vars

(***************************************************************************)
(* Properties.                                                             *)
(***************************************************************************)
\* whether the dataset ds holds the listing l
Holds(ds, l) == \E j \in 1..Len(ds) : ds[j] = l

\* a listing passes one dimension: the max bound is 0, or min <= value <= max
PassesDimension(value, min, max) ==
  \/ max = Zero
  \/ NumLe(min, value) /\ NumLe(value, max)

PassesAll(l, f) ==
  /\ PassesDimension(getNumber(l, "price"), f.price_min, f.price_max)
  /\ PassesDimension(getNumber(l, "bedrooms"), f.room_min, f.room_max)
  /\ PassesDimension(getNumber(l, "review_scores_rating"), f.score_min, f.score_max)

AllMaxZero(f) == f.price_max = Zero /\ f.room_max = Zero /\ f.score_max = Zero

\* C1: filter keeps a listing iff it passes each of the three dimensions
\* (the dimension's max bound is 0, or min <= extracted value <= max, both ends
\* inclusive); with all three max bounds 0 the result is the input dataset,
\* whatever the min bounds are.
C1_FilterKeepsIffInRange ==
  call.op = "filter" =>
    /\ \A i \in 1..Len(call.receiver) :
         Holds(call.returned, call.receiver[i])
           <=> PassesAll(call.receiver[i], call.filters)
    /\ \A j \in 1..Len(call.returned) : Holds(call.receiver, call.returned[j])
    /\ AllMaxZero(call.filters) => call.returned = call.receiver

\* a filter call that keeps a listing on an inclusive end of a range, drops
\* another, and has a dimension with max 0 and min above every listing's value
C1_Witness ==
  /\ call.op = "filter"
  /\ call.filters.price_max = Whole(200)
  /\ call.filters.score_max = Zero /\ call.filters.score_min = Whole(5)
  /\ \E i \in 1..Len(call.receiver) :
       /\ getNumber(call.receiver[i], "price") = Whole(200)
       /\ NumLt(getNumber(call.receiver[i], "review_scores_rating"), Whole(5))
       /\ Holds(call.returned, call.receiver[i])
  /\ \E i \in 1..Len(call.receiver) : ~Holds(call.returned, call.receiver[i])

\* price / max(bedrooms, 1), rounded to 2 decimals, half away from zero
PricePerRoom(l) ==
  MathRound100(NumDiv(getNumber(l, "price"),
                      IF NumLt(getNumber(l, "bedrooms"), Whole(1)) THEN Whole(1)
                      ELSE getNumber(l, "bedrooms")))

\* C2: in the chained run, every listing handed to the encoder carries a
\* price_per_room field equal to price / max(bedrooms, 1) rounded to 2 decimals,
\* whether or not the order stage ran.
C2_ExportedCarryPricePerRoom ==
  impl = "chained" =>
    \A k \in 1..Len(encoded) : \A j \in 1..Len(encoded[k]) :
      /\ "price_per_room" \in DOMAIN encoded[k][j]
      /\ getNumber(encoded[k][j], "price_per_room") = PricePerRoom(encoded[k][j])

\* the positions of the listings of ds whose host_id reads as the text id
Group(ds, id) == { i \in 1..Len(ds) : JSToString(ds[i].host_id) = id }

\* the positions of the listings of ds whose host_id is the value v
SameId(ds, v) == { i \in 1..Len(ds) : ds[i].host_id = v }

FirstOf(S) == CHOOSE i \in S : \A j \in S : i <= j

\* where the first listing of the host with key id stands in ds
FirstSeen(ds, id) == FirstOf(Group(ds, id))

\* the host_id values of ds, and their texts
DistinctIds(ds) == { ds[i].host_id : i \in 1..Len(ds) }

DistinctKeys(ds) == { JSToString(ds[i].host_id) : i \in 1..Len(ds) }

\* the limit a ranking call works with
EffectiveLimit == IF call.limit = NoArgument THEN 10 ELSE call.limit

FewerOf(a, b) == IF a <= b THEN a ELSE b

CountsNonIncreasing(entries) ==
  \A k \in 1..(Len(entries) - 1) : entries[k].count >= entries[k + 1].count

RECURSIVE SumCounts(_)
SumCounts(entries) ==
  IF entries = <<>> THEN 0 ELSE Head(entries).count + SumCounts(Tail(entries))

\* C3: the rank entry of a host_id that occurs on several listings carries the
\* host_name of the first of these listings in dataset order, never the name of
\* a later one.
C3_EntryCarriesFirstSeenName ==
  call.op = "rankHosts" =>
    \A k \in 1..Len(call.ranked) :
      LET g == Group(call.receiver, call.ranked[k].id)
      IN  (\A i, j \in g : call.receiver[i].host_id = call.receiver[j].host_id)
            => call.ranked[k].name = call.receiver[FirstOf(g)].host_name

\* C4 as stated: two ranked hosts with equal counts stand in the order in which
\* their first listings appear in the dataset.
C4_TiesInFirstAppearanceOrder ==
  call.op = "rankHosts" =>
    \A i, j \in 1..Len(call.ranked) :
      (i < j /\ call.ranked[i].count = call.ranked[j].count)
        => FirstSeen(call.receiver, call.ranked[i].id)
             < FirstSeen(call.receiver, call.ranked[j].id)

\* the order of two property keys in Object.entries
KeyBefore(ds, a, b) ==
  \/ IsArrayIndex(a) /\ IsArrayIndex(b) /\ DigitsLess(a, b)
  \/ IsArrayIndex(a) /\ ~IsArrayIndex(b)
  \/ ~IsArrayIndex(a) /\ ~IsArrayIndex(b) /\ FirstSeen(ds, a) < FirstSeen(ds, b)

\* C4: two ranked hosts with equal counts stand in property order: ids that are
\* array indices (canonical non-negative integers) first, in ascending numeric
\* order, then the other ids in the order of their first listings.
C4_TiesInPropertyOrder ==
  call.op = "rankHosts" =>
    \A i, j \in 1..Len(call.ranked) :
      (i < j /\ call.ranked[i].count = call.ranked[j].count)
        => KeyBefore(call.receiver, call.ranked[i].id, call.ranked[j].id)

\* host 7 is seen before host 3, both have one listing, and 3 is ranked first
C4_Witness ==
  /\ call.op = "rankHosts"
  /\ Len(call.receiver) = 2
  /\ call.receiver[1].host_id = JNum(Whole(7))
  /\ call.receiver[2].host_id = JNum(Whole(3))
  /\ Len(call.ranked) = 2
  /\ call.ranked[1].id = <<"3">>
  /\ call.ranked[2].id = <<"7">>

\* C5 as stated: the ranking has min(limit, number of distinct host_id values)
\* entries and its counts are non-increasing.
C5_LengthIsMinOfLimitAndDistinctIds ==
  call.op = "rankHosts" =>
    /\ Len(call.ranked)
         = FewerOf(EffectiveLimit, Cardinality(DistinctIds(call.receiver)))
    /\ CountsNonIncreasing(call.ranked)

\* C5: for a limit >= 0 (or none: 10), the ranking has min(limit, number of
\* distinct host_id texts) entries and its counts are non-increasing; with fewer
\* hosts than the limit all of them are listed.
C5_LengthIsMinOfLimitAndDistinctKeys ==
  call.op = "rankHosts" =>
    /\ Len(call.ranked)
         = FewerOf(EffectiveLimit, Cardinality(DistinctKeys(call.receiver)))
    /\ CountsNonIncreasing(call.ranked)
    /\ Cardinality(DistinctKeys(call.receiver)) < EffectiveLimit
         => { call.ranked[k].id : k \in 1..Len(call.ranked) }
              = DistinctKeys(call.receiver)

\* three listings of two hosts ranked with limit 1: the host with two listings
C5_Witness ==
  /\ call.op = "rankHosts"
  /\ call.limit = 1
  /\ Len(call.receiver) = 3
  /\ Cardinality(DistinctKeys(call.receiver)) = 2
  /\ Len(call.ranked) = 1
  /\ call.ranked[1].count = 2

\* C6: the counts of the ranking sum to at most the number of listings, and to
\* exactly that number when the limit is at least the number of distinct hosts
\* (counted as host_id texts, and so also when counted as host_id values).
C6_CountsSumToListings ==
  call.op = "rankHosts" =>
    /\ SumCounts(call.ranked) <= Len(call.receiver)
    /\ EffectiveLimit >= Cardinality(DistinctKeys(call.receiver))
         => SumCounts(call.ranked) = Len(call.receiver)
    /\ EffectiveLimit >= Cardinality(DistinctIds(call.receiver))
         => SumCounts(call.ranked) = Len(call.receiver)

\* three listings of two hosts, ranked with limit 2: counts 2 and 1
C6_Witness ==
  /\ call.op = "rankHosts"
  /\ call.limit = 2
  /\ Len(call.receiver) = 3
  /\ Len(call.ranked) = 2
  /\ call.ranked[1].count = 2
  /\ call.ranked[2].count = 1

\* C7 as stated: listings are grouped by the identity of their host_id values:
\* an untruncated ranking has one entry per distinct value, and each entry counts
\* the listings of one value.
C7_GroupsByExactIdentity ==
  (call.op = "rankHosts" /\ EffectiveLimit >= Len(call.receiver)) =>
    /\ Len(call.ranked) = Cardinality(DistinctIds(call.receiver))
    /\ \A k \in 1..Len(call.ranked) :
         \E v \in DistinctIds(call.receiver) :
           call.ranked[k].count = Cardinality(SameId(call.receiver, v))

\* C7: listings are grouped by the text of their host_id (its property key): an
\* untruncated ranking has one entry per distinct text, and each entry counts
\* the listings whose host_id reads as its id, so that 1 and "1", or a missing
\* host_id and "undefined", share a group.
C7_GroupsByPropertyKey ==
  call.op = "rankHosts" =>
    /\ \A k \in 1..Len(call.ranked) :
         call.ranked[k].count = Cardinality(Group(call.receiver, call.ranked[k].id))
    /\ \A k, m \in 1..Len(call.ranked) :
         call.ranked[k].id = call.ranked[m].id => k = m
    /\ EffectiveLimit >= Len(call.receiver)
         => { call.ranked[k].id : k \in 1..Len(call.ranked) }
              = DistinctKeys(call.receiver)

\* the ids 1 and "1" on two listings end in one entry of count 2
C7_Witness ==
  /\ call.op = "rankHosts"
  /\ Len(call.receiver) = 2
  /\ call.receiver[1].host_id = JNum(Whole(1))
  /\ call.receiver[2].host_id = JStr(<<"1">>)
  /\ Len(call.ranked) = 1
  /\ call.ranked[1].count = 2

\* the extracted values of prop over ds are fractions; their sum is
\* SumOver(ds, prop, den) / den for den = CommonDen(ds, prop)
RECURSIVE CommonDen(_, _)
CommonDen(ds, prop) ==
  IF ds = <<>> THEN 1 ELSE getNumber(Head(ds), prop).d * CommonDen(Tail(ds), prop)

RECURSIVE SumOver(_, _, _)
SumOver(ds, prop, den) ==
  IF ds = <<>> THEN 0
  ELSE getNumber(Head(ds), prop).n * (den \div getNumber(Head(ds), prop).d)
       + SumOver(Tail(ds), prop, den)

\* the number x is the fraction num / den (den > 0)
IsRatio(x, num, den) == x.k = "fin" /\ x.n * den = num * x.d

\* count, averagePrice and avgPricePerRoom of st are those of the dataset ds:
\* the number of listings, sum(price) / count and sum(price) / sum(bedrooms),
\* the last one Infinity or NaN when the bedrooms sum to 0
StatsOf(st, ds) ==
  LET pd == CommonDen(ds, "price")
      pn == SumOver(ds, "price", pd)
      rd == CommonDen(ds, "bedrooms")
      rn == SumOver(ds, "bedrooms", rd)
  IN  /\ st.count = Len(ds)
      /\ IsRatio(st.averagePrice, pn, pd * Len(ds))
      /\ rn > 0 => IsRatio(st.avgPricePerRoom, pn * rd, pd * rn)
      /\ (rn = 0 /\ pn > 0) => st.avgPricePerRoom = Infinity
      /\ (rn = 0 /\ pn = 0) => st.avgPricePerRoom = NaN

\* the three listings $200 / 2 rooms, $100 / 1 room, $50 / 1 room
Scenario(ds) ==
  /\ Len(ds) = 3
  /\ ds[1].price = JStr(Text200) /\ ds[1].bedrooms = JNum(Whole(2))
  /\ ds[2].price = JStr(Text100) /\ ds[2].bedrooms = JNum(Whole(1))
  /\ ds[3].price = JStr(Text50) /\ ds[3].bedrooms = JNum(Whole(1))

\* C8 as stated: for a non-empty dataset calculateStats returns the number of
\* listings, sum(price) / count and sum(price) / sum(bedrooms) without a floor of
\* one room, and for the three-listing scenario count = 3, averagePrice = 116.67,
\* avgPricePerRoom = 87.5.
C8_StatsWithScenarioRounded ==
  (call.op = "computeStats" /\ call.receiver # <<>>) =>
    /\ StatsOf(call.stats, call.receiver)
    /\ Scenario(call.receiver)
         => /\ call.stats.count = 3
            /\ call.stats.averagePrice = Fin(11667, 100)
            /\ call.stats.avgPricePerRoom = Fin(875, 10)

\* C8: for a non-empty dataset calculateStats returns the number of listings,
\* sum(price) / count and sum(price) / sum(bedrooms) without a floor of one
\* room, unrounded; for the three-listing scenario count = 3,
\* averagePrice = 350/3 (116.67 only once rounded to 2 decimals) and
\* avgPricePerRoom = 87.5.
C8_StatsUnrounded ==
  (call.op = "computeStats" /\ call.receiver # <<>>) =>
    /\ StatsOf(call.stats, call.receiver)
    /\ Scenario(call.receiver)
         => /\ call.stats.count = 3
            /\ call.stats.averagePrice = Fin(350, 3)
            /\ MathRound100(call.stats.averagePrice) = Fin(11667, 100)
            /\ call.stats.avgPricePerRoom = Fin(875, 10)

\* computeStats was called on the three-listing scenario
C8_Witness ==
  /\ call.op = "computeStats"
  /\ Scenario(call.receiver)
  /\ call.stats.count = 3
  /\ call.stats.averagePrice.n = 350
  /\ call.stats.averagePrice.d = 3

\* where the listing l stands in ds
Pos(ds, l) == CHOOSE i \in 1..Len(ds) : ds[i] = l

\* C9: order returns a permutation of the dataset whose extracted values are
\* non-decreasing, and listings with equal extracted values (a missing or
\* non-numeric field extracts to 0) keep their relative order.
C9_OrderIsStableAscendingPermutation ==
  call.op = "order" =>
    LET before == call.receiver
        after == call.returned
        value(l) == getNumber(l, call.property)
    IN  /\ Len(after) = Len(before)
        /\ \A i \in 1..Len(before) : Holds(after, before[i])
        /\ \A j \in 1..(Len(after) - 1) : NumLe(value(after[j]), value(after[j + 1]))
        /\ \A i, j \in 1..Len(after) :
             (i < j /\ value(after[i]) = value(after[j]))
               => Pos(before, after[i]) < Pos(before, after[j])

\* order by price moved a listing in front and kept two listings of equal
\* price ("$100" and 100) in their order
C9_Witness ==
  /\ call.op = "order"
  /\ call.property = "price"
  /\ Len(call.receiver) = 3
  /\ call.returned # call.receiver
  /\ \E i \in 1..2 :
       /\ getNumber(call.returned[i], "price") = getNumber(call.returned[i + 1], "price")
       /\ call.returned[i].price # call.returned[i + 1].price

\* the place of a stage in the pipeline
StageRank(stage) ==
  CASE stage = "load" -> 1
    [] stage = "filter" -> 2
    [] stage = "computeStats" -> 3
    [] stage = "rankHosts" -> 4
    [] stage = "order" -> 5
    [] stage = "export" -> 6
    [] stage = "exit" -> 7

Ran(stage) == \E i \in 1..Len(stages) : stages[i] = stage

\* C10: the stages of a run occur in the order load, filter, computeStats,
\* rankHosts, order, export, exit, each at most once and none before the one
\* before it completed; order runs only for a non-empty field name, export only
\* for a non-empty path and only after filter, computeStats and rankHosts; a run
\* that ends with code 0 ran every stage that was asked for.
C10_StagesInFixedOrder ==
  /\ \A i, j \in 1..Len(stages) : i < j => StageRank(stages[i]) < StageRank(stages[j])
  /\ stages # <<>> => stages[1] = "load"
  /\ Ran("computeStats") => Ran("filter")
  /\ Ran("rankHosts") => Ran("computeStats")
  /\ Ran("order") => Ran("rankHosts") /\ order # ""
  /\ Ran("export") => Ran("filter") /\ Ran("computeStats") /\ Ran("rankHosts") /\ path # ""
  /\ Ran("exit") <=> pc = "done"
  /\ exitCode = 0 =>
       /\ Ran("load") /\ Ran("filter") /\ Ran("computeStats") /\ Ran("rankHosts")
       /\ Ran("order") <=> order # ""
       /\ Ran("export") <=> path # ""

\* a run with an order and a path ended with code 0 after all seven stages
C10_Witness ==
  /\ pc = "done"
  /\ exitCode = 0
  /\ stages = <<"load", "filter", "computeStats", "rankHosts", "order", "export", "exit">>

\* the listings of the file that pass the filters of the run, in file order
KeptOfRun ==
  LET keep(l) == PassesAll(l, filterData) IN SelectSeq(file, keep)

\* after is before sorted ascending by the extracted values of property, equal
\* values in the order of before
SortedFrom(before, after, property) ==
  /\ Len(after) = Len(before)
  /\ \A i \in 1..Len(before) : Holds(after, before[i])
  /\ \A j \in 1..(Len(after) - 1) :
       NumLe(getNumber(after[j], property), getNumber(after[j + 1], property))
  /\ \A i, j \in 1..Len(after) :
       (i < j /\ getNumber(after[i], property) = getNumber(after[j], property))
         => Pos(before, after[i]) < Pos(before, after[j])

\* the write of the output file was tried and failed
WriteFailed == encoded # <<>> /\ ~written

\* C11: in a run of the chained handler, the dataset handed to the encoder is
\* the working dataset: the filtered listings sorted ascending by the order
\* field when one was given, otherwise the filtered listings in input order;
\* with an empty path nothing is exported, with an empty order field nothing is
\* sorted.
C11_EncodedIsWorkingDataset ==
  impl = "chained" =>
    /\ Len(encoded) <= 1
    /\ encoded # <<>> => path # "" /\ Ran("export")
    /\ (pc \in {"exit", "done"} /\ path = "") => (encoded = <<>> /\ ~Ran("export"))
    /\ (pc \in {"askOutputPath", "export", "exit"} /\ order = "")
         => (data = KeptOfRun /\ ~Ran("order"))
    /\ \A k \in 1..Len(encoded) :
         /\ encoded[k] = data
         /\ order = "" => encoded[k] = KeptOfRun
         /\ order # "" => SortedFrom(KeptOfRun, encoded[k], order)

\* an export of three listings, one filtered out and the other two swapped by
\* the order
C11_Witness ==
  /\ impl = "chained"
  /\ written
  /\ order = "price"
  /\ Len(file) = 3
  /\ Len(encoded[1]) = 2
  /\ encoded[1] # KeptOfRun

\* C12: when the write of the output file fails in a run of the chained
\* handler, the run fails: the process ends with exit code 1, never 0.
C12_ChainedWriteFailureExitsOne ==
  (impl = "chained" /\ WriteFailed) => (pc = "done" /\ exitCode = 1)

C12_Witness ==
  /\ impl = "chained"
  /\ WriteFailed
  /\ encoded[1] # <<>>
  /\ exitCode = 1

\* C13: when the write of the output file fails in a run of the stateful
\* handler, writeIntoFile throws and the process ends with exit code 1, not 0.
C13_StatefulWriteFailureExitsOne ==
  (impl = "stateful" /\ WriteFailed) => (pc # "exit" /\ exitCode # 0)

\* C14: when the filter leaves no listing, every later stage completes in both
\* implementations: computeStats (count 0, averages NaN), rankHosts (empty
\* ranking), order with a field name, and export; the run ends with exit code 0.
C14_EmptySelectionRunsThrough ==
  (Ran("filter") /\ Working = <<>> /\ ~WriteFailed) =>
    /\ Ran("computeStats") => (stats.count = 0 /\ stats.averagePrice = NaN)
    /\ Ran("rankHosts") => ranked = <<>>
    /\ pc = "done" =>
         /\ exitCode = 0
         /\ Ran("computeStats") /\ Ran("rankHosts")
         /\ Ran("order") <=> order # ""
         /\ Ran("export") <=> path # ""

\* the file has rows and readCsv decoded none of them: the read failed
LoadFailed == Ran("load") /\ file # <<>> /\ csvData = <<>>

\* C15: when the input file cannot be read or parsed, the run ends with exit
\* code 1 and nothing runs after the failed load: no prompt, no filter,
\* computeStats, rankHosts, order or export.
C15_LoadFailureEndsRun ==
  LoadFailed =>
    /\ pc = "done"
    /\ exitCode = 1
    /\ stages = <<"load", "exit">>
    /\ filterData = NoFilters /\ order = "" /\ path = ""
    /\ data = <<>> /\ filteredListings = <<>>
    /\ ranked = <<>> /\ encoded = <<>> /\ ~written

C15_Witness ==
  /\ LoadFailed
  /\ Len(file) = 3
  /\ impl = "stateful"
  /\ exitCode = 1
  /\ stages = <<"load", "exit">>

\* C16: no operation of the chained handler changes the dataset of the handler
\* it is called on: after filter, order, computeStats or rankHosts the handler
\* holds the same listings in the same order; filter and order deliver their
\* result through the handler they return, computeStats and rankHosts return
\* the handler they were called on.
C16_ReceiverUnchanged ==
  call.op \in {"filter", "order", "computeStats", "rankHosts"} =>
    /\ data = call.receiver
    /\ call.op \in {"computeStats", "rankHosts"} => call.returned = call.receiver

\* a filter or an order, called on a handler that an earlier order returned,
\* whose result differs from the dataset of the handler it was called on
C16_Witness ==
  /\ call.op \in {"filter", "order"}
  /\ Len(call.receiver) = 3
  /\ call.returned # call.receiver
  /\ data = call.receiver
  /\ \E i \in 1..2 : NumLt(data[i + 1].id.num, data[i].id.num)

\* C17: the listings filter keeps stand in the same relative order as in the
\* input: the output is a subsequence of the input, without duplicates, and
\* holds no listing that fails the predicate.
C17_FilterKeepsInputOrder ==
  call.op = "filter" =>
    /\ \A j \in 1..Len(call.returned) :
         /\ Holds(call.receiver, call.returned[j])
         /\ PassesAll(call.returned[j], call.filters)
    /\ \A j, k \in 1..Len(call.returned) :
         j < k => Pos(call.receiver, call.returned[j]) < Pos(call.receiver, call.returned[k])

\* the middle one of three listings is filtered out
C17_Witness ==
  /\ call.op = "filter"
  /\ Len(call.receiver) = 3
  /\ call.returned = <<call.receiver[1], call.receiver[3]>>

\* C18: order is idempotent: ordering the result of order(d, f) by f again
\* gives the same sequence of listings.
C18_OrderIdempotent ==
  call.op = "order" =>
    ArraySort(call.returned, [by |-> "property", property |-> call.property])
      = call.returned

\* an order that moved listings and left two of equal value next to each other
C18_Witness ==
  /\ call.op = "order"
  /\ call.returned # call.receiver
  /\ \E i \in 1..(Len(call.returned) - 1) :
       getNumber(call.returned[i], call.property)
         = getNumber(call.returned[i + 1], call.property)

\* a text is a plain numeral: digits, or digits "." digits, after an optional "-"
IsNumeral(t) ==
  LET i == IF t # <<>> /\ t[1] = "-" THEN 2 ELSE 1
      ni == DigitRun(t, i)
  IN  /\ ni > 0
      /\ \/ i + ni = Len(t) + 1
         \/ /\ i + ni < Len(t)
            /\ t[i + ni] = "."
            /\ i + ni + 1 + DigitRun(t, i + ni + 1) = Len(t) + 1

\* the number a plain numeral denotes
NumeralValue(t) ==
  LET i == IF t[1] = "-" THEN 2 ELSE 1
      ni == DigitRun(t, i)
      nf == IF i + ni <= Len(t) THEN DigitRun(t, i + ni + 1) ELSE 0
      n == DigitsValue(t, i, ni) * Pow10(nf) + DigitsValue(t, i + ni + 1, nf)
  IN  Fin(IF t[1] = "-" THEN -n ELSE n, Pow10(nf))

\* C19: getNumber returns a finite number: the numeric value of the field's text
\* after removing every "$" and ",", or 0 when the field is absent or does not
\* parse ("$1,234.50" gives 1234.50, "$100" gives 100, no field gives 0).
C19_GetNumberFiniteParsedValue ==
  call.op = "getNumber" =>
    LET item == call.receiver[1]
        field == Get(item, call.property)
    IN  /\ call.value.k = "fin"
        /\ call.property \notin DOMAIN item => call.value = Zero
        /\ field = JStr(Text1234) => call.value = Fin(12345, 10)
        /\ field = JStr(Text100) => call.value = Whole(100)
        /\ (field.t = "string" /\ IsNumeral(StripCurrency(field.str)))
             => call.value = NumeralValue(StripCurrency(field.str))

\* a host_id of numeric type, strictly greater than 0
PositiveNumber(v) ==
  /\ v.t = "number"
  /\ \/ v.num.k = "fin" /\ v.num.n > 0
     \/ v.num.k = "inf" /\ v.num.n > 0

\* C20: validListings is the number of listings whose host_id is a value of
\* numeric type strictly greater than 0; a host_id that is numeric-looking text,
\* zero, negative or missing is not counted.
C20_ValidListingsCountsPositiveNumbers ==
  call.op = "computeStats" =>
    call.stats.validListings
      = Cardinality({ i \in 1..Len(call.receiver) :
                        PositiveNumber(call.receiver[i].host_id) })

\* of the host ids 5, "5" and 0 only the first is counted
C20_Witness ==
  /\ call.op = "computeStats"
  /\ Len(call.receiver) = 3
  /\ call.receiver[1].host_id = JNum(Whole(5))
  /\ call.receiver[2].host_id = JStr(<<"5">>)
  /\ call.receiver[3].host_id = JNum(Zero)
  /\ call.stats.validListings = 1

\* C21: the two implementations agree on filtering: the filter of the stateful
\* handler and filterListings of the chained handler keep the same listings in
\* the same order, for every dataset (fractional and textual bedroom values
\* included) and every filter with numeric bounds.
C21_HandlersAgreeOnFilter ==
  call.op = "filter" =>
    StatefulFilter(call.receiver, call.filters) = call.returned

\* the listing l satisfies the filters f, read as the stateful handler reads a
\* listing
StatefulPasses(l, f) ==
  /\ PassesDimension(StatefulPrice(l), f.price_min, f.price_max)
  /\ PassesDimension(StatefulBedrooms(l), f.room_min, f.room_max)
  /\ PassesDimension(StatefulScore(l), f.score_min, f.score_max)

\* the row numbers of the listings of ds, in order
Ids(ds) == [i \in 1..Len(ds) |-> ds[i].id]

\* l is the row raw, but for a price_per_room written into it
SameListing(l, raw) ==
  \A f \in DOMAIN raw : f \in DOMAIN l /\ l[f] = raw[f]

\* C22: successive filters compose differently in the two handlers.  Chained:
\* h.filter(c1).filter(c2) keeps exactly the listings of h that satisfy c1 and
\* c2, and equals h.filter(c2).filter(c1).  Stateful: after any sequence of
\* filter, computeStats and order calls, filter(c2) leaves as filteredListings
\* the listings of the loaded data that satisfy c2 alone, in the order of the
\* loaded data.
C22_FiltersCompose ==
  call.op = "filter" =>
    /\ impl = "chained" =>
         \A c2 \in ComposeFilters :
           LET both(l) == PassesAll(l, call.filters) /\ PassesAll(l, c2)
           IN  /\ filterListings(call.returned, c2) = SelectSeq(call.receiver, both)
               /\ filterListings(call.returned, c2)
                    = filterListings(filterListings(call.receiver, c2), call.filters)
    /\ impl = "stateful" =>
         LET alone(l) == StatefulPasses(l, filterData)
             expected == SelectSeq(file, alone)
         IN  /\ Ids(filteredListings) = Ids(expected)
             /\ \A j \in 1..Len(expected) :
                  SameListing(filteredListings[j], expected[j])

\* the stateful handler filtered, computed the statistics, ordered, and then
\* filtered with the room bounds: two of three loaded listings, in loaded order,
\* one of them dropped by the earlier filter
C22_Witness ==
  /\ impl = "stateful"
  /\ call.op = "filter"
  /\ filterData = [NoFilters EXCEPT !.room_min = Whole(1), !.room_max = Whole(2)]
  /\ order = "price"
  /\ Len(file) = 3
  /\ Len(filteredListings) = 2
  /\ \E j \in 1..2 : "price_per_room" \in DOMAIN filteredListings[j]
  /\ \E j \in 1..2 : "price_per_room" \notin DOMAIN filteredListings[j]

====
